---- MODULE Spec2Model ----
(***************************************************************************)
(* A model of the plotstyle field-resolution engine:                       *)
(*   plotstyle.py            _yaml_parse_from_dict, _yaml_parse_list,      *)
(*                           _resolve_marked_for_delete, PSTemplate,       *)
(*                           PlotStyle.__init__                            *)
(*   plotstyle_interface.py  normalize_prop, fetch_value, parse_prop,      *)
(*                           apply_localization, register_affixable,       *)
(*                           apply_affixes                                 *)
(*   plotstyle_validators.py the validators the engine calls through       *)
(*                                                                         *)
(* Python values are records of one fixed shape, tagged by t:              *)
(*   "str" (s), "int" (n), "bool" (n in 0..1), "none",                     *)
(*   "list" (items: sequence of values),                                   *)
(*   "map"  (items: sequence of [k, v] pairs in insertion order, the way   *)
(*           a Python dict keeps its keys),                                *)
(*   "implicit" / "explicit" (items: <<payload>>): a node the YAML loader  *)
(*           wrapped in _TaggedValue because it carries an intent tag.     *)
(* A dict that is not itself a value of a field (a scope, fieldProps, the  *)
(* affix registry) is the bare sequence of [k, v] pairs.                   *)
(***************************************************************************)
EXTENDS Integers, Sequences, FiniteSets, TLC

(***************************************************************************)
(* Python values                                                           *)
(***************************************************************************)
PyStr(s) == [t |-> "str", s |-> s, n |-> 0, items |-> <<>>]
PyInt(n) == [t |-> "int", s |-> "", n |-> n, items |-> <<>>]
PyBool(b) == [t |-> "bool", s |-> "", n |-> IF b THEN 1 ELSE 0, items |-> <<>>]
PyNone == [t |-> "none", s |-> "", n |-> 0, items |-> <<>>]
PyList(xs) == [t |-> "list", s |-> "", n |-> 0, items |-> xs]
PyMap(ps) == [t |-> "map", s |-> "", n |-> 0, items |-> ps]
\* _TaggedValue(value, intent)
Tagged(intent, x) == [t |-> intent, s |-> "", n |-> 0, items |-> <<x>>]
KV(k, v) == [k |-> k, v |-> v]

IsStr(x) == x.t = "str"
IsMap(x) == x.t = "map"
IsList(x) == x.t = "list"
\* isinstance(x, bool)
IsBool(x) == x.t = "bool"
\* isinstance(x, (int, float)): bool is a subclass of int
IsNumber(x) == x.t \in {"int", "bool"}
\* only str, numbers and None are hashable (usable as a dict key)
IsHashable(x) == x.t \in {"str", "int", "bool", "none"}

(***************************************************************************)
(* dict operations on a sequence of [k, v] pairs                           *)
(***************************************************************************)
Keys(d) == {d[i].k : i \in 1..Len(d)}
\* k in d
Has(d, k) == k \in Keys(d)
\* d[k], for k in d
Get(d, k) == d[CHOOSE i \in 1..Len(d) : d[i].k = k].v
\* d[k] = v: an existing key keeps its position
Put(d, k, v) ==
    IF Has(d, k)
    THEN [i \in 1..Len(d) |-> IF d[i].k = k THEN KV(k, v) ELSE d[i]]
    ELSE Append(d, KV(k, v))
\* del d[k] / d.pop(k, None)
Del(d, k) == SelectSeq(d, LAMBDA p : p.k # k)
RECURSIVE Update(_, _)
\* d.update(e)
Update(d, e) == IF e = <<>> THEN d ELSE Update(Put(d, Head(e).k, Head(e).v), Tail(e))
\* two dicts compare equal in Python whatever their insertion order
SameDict(d, e) == /\ Keys(d) = Keys(e)
                  /\ \A k \in Keys(d) : Get(d, k) = Get(e, k)

(***************************************************************************)
(* Strings                                                                 *)
(***************************************************************************)
Digits == {"0", "1", "2", "3", "4", "5", "6", "7", "8", "9"}
DigitVal(c) == CHOOSE i \in 0..9 : SubSeq("0123456789", i + 1, i + 1) = c
IsDigits(s) == Len(s) > 0 /\ \A i \in 1..Len(s) : SubSeq(s, i, i) \in Digits
RECURSIVE DigitsVal(_)
DigitsVal(s) == IF Len(s) = 0 THEN 0
                ELSE 10 * DigitsVal(SubSeq(s, 1, Len(s) - 1)) + DigitVal(SubSeq(s, Len(s), Len(s)))
EndsWith(s, suf) == Len(s) >= Len(suf) /\ SubSeq(s, Len(s) - Len(suf) + 1, Len(s)) = suf
\* the positions at which sub occurs in s
Occurrences(s, sub) == {i \in 1..(Len(s) - Len(sub) + 1) : SubSeq(s, i, i + Len(sub) - 1) = sub}
(***************************************************************************)
(* Schema (plotstyle_interface.py)                                         *)
(***************************************************************************)
VALUE == "value"
VALIDATOR == "validator"
SOURCE == "source"
VALUE_FROM_LITERAL == "literal"
VALUE_FROM_FIELD == "field"
KEEP == "keep"
SUFFIX == "suffix"
PREFIX == "prefix"
LANGUAGE == "language"
LANGUAGE_DEFAULT == "en"
CONFIGS == "configs"
YAML == "yaml"
AFFIX_KEYS == <<PREFIX, SUFFIX>>
REQUIRED_EXPLICIT_PROPS == {VALUE, SOURCE}
\* PropSchema.looks_explicit
looks_explicit(mapping) == Keys(mapping) \cap REQUIRED_EXPLICIT_PROPS # {}
\* PropSchema.format_key: AFFIX_KEY_FORMAT = "{key}__{affix}__"
format_key(key, affix) == key \o "__" \o affix \o "__"
\* PropSchema.unpack_affix_key: parse("{key}__{affix}__", field). Both fields
\* match lazily, so the key ends at the first "__" that leaves a non-empty
\* affix before the closing "__"; no such split raises ValueError.
unpack_affix_key(field) ==
    LET splits == {i \in Occurrences(field, "__") :
                      i > 1 /\ i + 2 <= Len(field) - 2 /\ EndsWith(field, "__")}
    IN  IF splits = {} THEN [ok |-> FALSE, key |-> "", affix |-> ""]
        ELSE LET i == CHOOSE j \in splits : \A h \in splits : j <= h
             IN  [ok |-> TRUE, key |-> SubSeq(field, 1, i - 1),
                  affix |-> SubSeq(field, i + 2, Len(field) - 2)]
SOURCE_DEFAULT_KEEP == (VALUE_FROM_LITERAL :> TRUE) @@ (VALUE_FROM_FIELD :> FALSE)
KEEP_DEFAULT_CLASS_LEVEL == TRUE
\* PropSchema.default_keep
default_keep == KEEP_DEFAULT_CLASS_LEVEL
\* PropSchema.default_keep_for_source: source is the value of prop.get("source"),
\* or PyNone when the descriptor has no such key
default_keep_for_source(source) ==
    IF IsStr(source) /\ source.s \in DOMAIN SOURCE_DEFAULT_KEEP
    THEN SOURCE_DEFAULT_KEEP[source.s]
    ELSE KEEP_DEFAULT_CLASS_LEVEL

(***************************************************************************)
(* Validators (plotstyle_validators.py). The registry also holds pathstr,  *)
(* filename, fileformat, color, float, fontfamily, figsize, gridoptions    *)
(* and plotoptions, which rest on the file system and on matplotlib; the   *)
(* documents of the model name none of them.                               *)
(***************************************************************************)
PROP_STRING_VALIDATION_YAML == "yaml"
PROP_STRING_VALIDATION_STR == "str"
PROP_STRING_VALIDATION_BOOL == "bool"
PROP_STRING_VALIDATION_INT == "int"
PROP_STRING_VALIDATION_UNDETERMINED == "undetermined"
PROP_STRING_VALIDATION_FONTSIZE == "fontsize"
PROP_STRING_VALIDATION_LINEWIDTH == "linewidth"
PROP_STRING_VALIDATION_DICT == "dict"
VALIDATORS == {PROP_STRING_VALIDATION_YAML, PROP_STRING_VALIDATION_STR,
               PROP_STRING_VALIDATION_BOOL, PROP_STRING_VALIDATION_INT,
               PROP_STRING_VALIDATION_UNDETERMINED, PROP_STRING_VALIDATION_FONTSIZE,
               PROP_STRING_VALIDATION_LINEWIDTH, PROP_STRING_VALIDATION_DICT}
FONTSIZE_NAMES == {"xx-small", "x-small", "small", "medium", "large", "x-large", "xx-large"}
\* int(value) succeeds: an int, or a str of decimal digits with an optional sign
\* (surrounding blanks and underscores, which int() also takes, are left out)
IntConvertible(x) ==
    \/ x.t = "int"
    \/ /\ IsStr(x)
       /\ \/ IsDigits(x.s)
          \/ Len(x.s) > 1 /\ SubSeq(x.s, 1, 1) \in {"+", "-"} /\ IsDigits(SubSeq(x.s, 2, Len(x.s)))
\* int(value)
IntOf(x) ==
    IF x.t = "int" THEN x.n
    ELSE IF IsDigits(x.s) THEN DigitsVal(x.s)
    ELSE IF SubSeq(x.s, 1, 1) = "-" THEN 0 - DigitsVal(SubSeq(x.s, 2, Len(x.s)))
    ELSE DigitsVal(SubSeq(x.s, 2, Len(x.s)))
\* Validator.validate of the validators that need no field_parser
validate(id, x) ==
    CASE id = PROP_STRING_VALIDATION_STR ->
            IF IsMap(x) THEN \A i \in 1..Len(x.items) : IsStr(x.items[i].v) ELSE IsStr(x)
      [] id = PROP_STRING_VALIDATION_BOOL -> IsBool(x)
      [] id = PROP_STRING_VALIDATION_INT -> ~IsBool(x) /\ IntConvertible(x)
      [] id = PROP_STRING_VALIDATION_UNDETERMINED -> TRUE
      [] id = PROP_STRING_VALIDATION_FONTSIZE ->
            IF IsNumber(x) THEN x.n > 0
            ELSE IF IsStr(x) THEN x.s \in FONTSIZE_NAMES
            ELSE x = PyNone
      [] id = PROP_STRING_VALIDATION_LINEWIDTH ->
            IF IsNumber(x) THEN x.n >= 0 ELSE x = PyNone
      [] OTHER -> FALSE
\* Validator.parse of the same validators, for a value validate accepts
parse(id, x) == IF id = PROP_STRING_VALIDATION_INT THEN PyInt(IntOf(x)) ELSE x

(***************************************************************************)
(* normalize_prop: a raw entry to its descriptor (a dict). ok = FALSE is   *)
(* the ValueError of a node tagged explicit without a "value" payload;     *)
(* warn = TRUE is the likely-mistaken-shape UserWarning.                   *)
(***************************************************************************)
as_implicit(value) ==
    <<KV(VALUE, value),
      KV(VALIDATOR, PyStr(PROP_STRING_VALIDATION_UNDETERMINED)),
      KV(SOURCE, PyStr(VALUE_FROM_LITERAL))>>
\* prop.setdefault(k, v)
setdefault(d, k, v) == IF Has(d, k) THEN d ELSE Append(d, KV(k, v))
with_defaults(d) ==
    setdefault(setdefault(d, VALIDATOR, PyStr(PROP_STRING_VALIDATION_UNDETERMINED)),
               SOURCE, PyStr(VALUE_FROM_LITERAL))
normalize_prop(key, raw_prop) ==
    CASE raw_prop.t = "implicit" ->
            [ok |-> TRUE, warn |-> FALSE, prop |-> as_implicit(raw_prop.items[1])]
      [] raw_prop.t = "explicit" ->
            LET value == raw_prop.items[1]
            IN  IF ~IsMap(value) \/ ~Has(value.items, VALUE)
                THEN [ok |-> FALSE, warn |-> FALSE, prop |-> <<>>]
                ELSE [ok |-> TRUE, warn |-> FALSE, prop |-> with_defaults(value.items)]
      [] IsMap(raw_prop) ->
            IF Has(raw_prop.items, VALUE)
            THEN [ok |-> TRUE, warn |-> FALSE, prop |-> with_defaults(raw_prop.items)]
            ELSE [ok |-> TRUE, warn |-> looks_explicit(raw_prop.items),
                  prop |-> as_implicit(raw_prop)]
      [] OTHER -> [ok |-> TRUE, warn |-> FALSE, prop |-> as_implicit(raw_prop)]

(***************************************************************************)
(* fetch_value: the raw value of a descriptor. prop is the descriptor as a *)
(* Python value (an affix descriptor need not be a dict). ok = FALSE is    *)
(* any exception: SourceFieldMissing, InvalidSourceType, KeyError and the  *)
(* TypeError of subscripting a non-dict or of an unhashable key.           *)
(***************************************************************************)
\* dump_to | read_from: the right operand wins on a key both hold
DictUnion(dump_to, read_from) == Update(dump_to, read_from)
fetch_value(prop, dump_to, read_from) ==
    LET bad == [ok |-> FALSE, val |-> PyNone]
    IN  IF ~IsMap(prop) \/ ~Has(prop.items, SOURCE) THEN bad
        ELSE LET p == prop.items
                 source == Get(p, SOURCE)
             IN  IF source = PyStr(VALUE_FROM_LITERAL)
                 THEN IF Has(p, VALUE) THEN [ok |-> TRUE, val |-> Get(p, VALUE)] ELSE bad
                 ELSE IF source = PyStr(VALUE_FROM_FIELD)
                 THEN IF /\ Has(p, VALUE)
                         /\ IsStr(Get(p, VALUE))
                         /\ Has(DictUnion(dump_to, read_from), Get(p, VALUE).s)
                      THEN [ok |-> TRUE,
                            val |-> Get(DictUnion(dump_to, read_from), Get(p, VALUE).s)]
                      ELSE bad
                 ELSE bad
(***************************************************************************)
(* The documents on disk, under the configs folder. _resolve_yaml_path     *)
(* looks a name up by its base name; _load_yaml wants a mapping at the top.*)
(***************************************************************************)
DEFAULT_CONFIGS_FOLDER == "plotstyle_configs"
Lit(value, validator) == PyMap(<<KV(VALUE, value), KV(VALIDATOR, PyStr(validator))>>)
Full(value, validator) ==
    PyMap(<<KV(VALUE, value), KV(VALIDATOR, PyStr(validator)), KV(SOURCE, PyStr(VALUE_FROM_LITERAL))>>)
Ref(target, validator) ==
    PyMap(<<KV(VALUE, PyStr(target)), KV(SOURCE, PyStr(VALUE_FROM_FIELD)),
            KV(VALIDATOR, PyStr(validator))>>)
Include(path) == PyMap(<<KV(VALUE, path), KV(VALIDATOR, PyStr(PROP_STRING_VALIDATION_YAML))>>)
SharedYaml ==
    <<KV("title", PyStr("shared")),
      KV("footer", PyStr("x")),
      KV("size", PyMap(<<KV(VALUE, PyStr("12")), KV(VALIDATOR, PyStr("str")),
                         KV(SUFFIX, Full(PyStr("pt"), "str")), KV(KEEP, PyBool(FALSE))>>))>>
\* a document that chain-includes itself
LoopYaml ==
    <<KV("title", PyStr("loop")),
      KV("again", Include(PyStr("loop.yaml")))>>
Disk ==
    [name \in {"shared.yaml", "loop.yaml", "scalar.yaml", "notes.txt"} |->
        CASE name = "shared.yaml" -> [mapping |-> TRUE, doc |-> SharedYaml]
          [] name = "loop.yaml" -> [mapping |-> TRUE, doc |-> LoopYaml]
          [] name = "scalar.yaml" -> [mapping |-> FALSE, doc |-> <<>>]
          [] OTHER -> [mapping |-> TRUE, doc |-> <<>>]]
\* os.path.basename
basename(path) ==
    LET cuts == Occurrences(path, "/")
    IN  IF cuts = {} THEN path
        ELSE SubSeq(path, (CHOOSE i \in cuts : \A j \in cuts : j <= i) + 1, Len(path))
\* _resolve_yaml_path followed by _load_yaml(VALIDATORS["yaml"].parse(resolved)):
\* ok = FALSE is FileNotFoundError, the ValueError of a name that is not
\* *.yaml, the TypeError of a path that is no str or of a top level that is
\* no mapping.
_resolve_yaml_path(filename, configs_folder) ==
    IF ~IsStr(filename) \/ basename(filename.s) \notin DOMAIN Disk
    THEN [ok |-> FALSE, path |-> ""]
    ELSE IF ~EndsWith(basename(filename.s), ".yaml")
    THEN [ok |-> FALSE, path |-> ""]
    ELSE [ok |-> TRUE, path |-> configs_folder \o "/" \o basename(filename.s)]
_load_yaml(path) ==
    LET file == Disk[basename(path)]
    IN  IF file.mapping THEN [ok |-> TRUE, data |-> file.doc] ELSE [ok |-> FALSE, data |-> <<>>]

(***************************************************************************)
(* _ParseContext, and what one resolution changes besides its scope: the   *)
(* context, the warnings emitted (process-wide) and, as a history of the   *)
(* run, the successful declarations in the order they were processed       *)
(* (writes), each with the number of the document of the merged list it    *)
(* was processed under (doc).                                              *)
(***************************************************************************)
NewParseContext ==
    [explicitly_kept |-> {}, explicitly_deleted |-> {}, marked_for_delete |-> {},
     field_props |-> <<>>, affix |-> <<>>, file_stack |-> <<>>]
NewMachine == [ctx |-> NewParseContext, warnings |-> <<>>, writes |-> <<>>, doc |-> 1]
IGNORED == "ignored"
SUSPICIOUS == "suspicious"
\* warnings.warn(IGNORE_FIELD_MSG.format(error=e, key=key)), or the UserWarning
\* of normalize_prop: the model keeps the kind and the key the message names
Warn(m, kind, key) == [m EXCEPT !.warnings = Append(@, [kind |-> kind, key |-> key])]
\* the history entry of a declaration that wrote val under key into the scope
\* of the resolution (top) or into the scope of a nested mapping
Wrote(m, key, val, prop, top) ==
    [m EXCEPT !.writes = Append(@, [key |-> key, val |-> val, prop |-> prop, top |-> top,
                                    doc |-> m.doc])]
\* lines 85-95 of _dump_to_dict: the explicit keep / delete mark
RecordKeep(m, key, prop) ==
    IF ~Has(prop, KEEP) THEN m
    ELSE LET keep_val == Get(prop, KEEP)
         IN  IF ~validate(PROP_STRING_VALIDATION_BOOL, keep_val) THEN m
             ELSE IF parse(PROP_STRING_VALIDATION_BOOL, keep_val) = PyBool(TRUE)
             THEN [m EXCEPT !.ctx.explicitly_kept = @ \cup {key}]
             ELSE [m EXCEPT !.ctx.explicitly_deleted = @ \cup {key}]

(***************************************************************************)
(* The resolver. A frame fr says whether read_from is the very dict        *)
(* dump_to (aliased), whether dump_to is the scope of the resolution (top) *)
(* and how many more nested calls of _dump_to_dict the interpreter's       *)
(* recursion limit allows (depth).                                         *)
(*   _dump_to_dict  returns [dump, m, exc]: exc # "none" is an exception   *)
(*                  that leaves the call, dump and m being the dicts as    *)
(*                  mutated up to the raise;                               *)
(*   parse_prop     returns [ok, val, m]: ok = FALSE is ParseError.        *)
(***************************************************************************)
NoExc == "none"
\* the element of a one-element set: The({e(x) : x \in {v}}) is e(v), with v
\* evaluated once
The(S) == CHOOSE x \in S : TRUE
RECURSIVE _dump_to_dict(_, _, _, _, _)
RECURSIVE parse_prop(_, _, _, _, _)
RECURSIVE DictValidate(_, _, _, _)
RECURSIVE DictParse(_, _, _, _, _)
RECURSIVE IncludePaths(_, _, _, _)
RECURSIVE ProcessField(_, _, _, _, _, _)

\* what read_from is when the frame reads dump_to itself
ReadFrom(dump_to, read_from, fr) == IF fr.aliased THEN dump_to ELSE read_from

\* context[field_parser]: dumper(nested_handle, dump_to={}, read_from=dump_to)
field_parser(nested_handle, dump_to, m, fr) ==
    IF fr.depth = 0
    THEN [dump |-> <<>>, m |-> m, exc |-> "RecursionError"]
    ELSE _dump_to_dict(nested_handle, <<>>, dump_to, m,
                       [aliased |-> FALSE, top |-> FALSE, depth |-> fr.depth - 1])

\* DictValidator.validate over the entries left: one field_parser call per key
DictValidate(entries, dump_to, m, fr) ==
    IF entries = <<>> THEN [ok |-> TRUE, m |-> m]
    ELSE The({ IF r.exc # NoExc THEN [ok |-> FALSE, m |-> r.m]
               ELSE DictValidate(Tail(entries), dump_to, r.m, fr) :
               r \in {field_parser(<<Head(entries)>>, dump_to, m, fr)} })

\* the loop of DictValidator.parse: parsed[key] = field_parser({key: subprop})[key]
DictParse(entries, parsed, dump_to, m, fr) ==
    IF entries = <<>> THEN [ok |-> TRUE, val |-> PyMap(parsed), m |-> m]
    ELSE LET key == Head(entries).k
         IN  The({ IF r.exc # NoExc \/ ~Has(r.dump, key)
                   THEN [ok |-> FALSE, val |-> PyNone, m |-> r.m]
                   ELSE DictParse(Tail(entries), Put(parsed, key, Get(r.dump, key)),
                                  dump_to, r.m, fr) :
                   r \in {field_parser(<<Head(entries)>>, dump_to, m, fr)} })

parse_prop(prop, dump_to, read_from, m, fr) ==
    LET fail == [ok |-> FALSE, val |-> PyNone, m |-> m]
    IN  IF ~IsMap(prop) \/ ~Has(prop.items, VALIDATOR) THEN fail
        ELSE LET id == Get(prop.items, VALIDATOR)
                 raw == fetch_value(prop, dump_to, read_from)
             IN  IF ~IsStr(id) \/ id.s \notin VALIDATORS THEN fail
                 ELSE IF ~raw.ok THEN fail
                 ELSE IF id.s = PROP_STRING_VALIDATION_DICT
                 THEN IF ~IsMap(raw.val) THEN fail
                      ELSE The({ IF ~v.ok THEN [ok |-> FALSE, val |-> PyNone, m |-> v.m]
                                 ELSE DictParse(raw.val.items, <<>>, dump_to, v.m, fr) :
                                 v \in {DictValidate(raw.val.items, dump_to, m, fr)} })
                 ELSE IF validate(id.s, raw.val)
                 THEN [ok |-> TRUE, val |-> parse(id.s, raw.val), m |-> m]
                 ELSE fail

\* (mutation) a registration is added to the registry, beside an earlier one
\* of the same key, instead of replacing it
RegisterAffix_append(affix_type, key, prop, dump_to, read_from, m, fr) ==
    IF Has(prop, affix_type) /\ Get(prop, affix_type) # PyMap(<<>>)
    THEN The({ IF r.ok
               THEN [r.m EXCEPT !.ctx.affix =
                                    Append(@, KV(format_key(key, affix_type), r.val))]
               ELSE Warn(r.m, IGNORED, key \o "." \o affix_type) :
               r \in {parse_prop(Get(prop, affix_type), dump_to, read_from, m, fr)} })
    ELSE m
\* register_affixable: one affix type
RegisterAffix(affix_type, key, prop, dump_to, read_from, m, fr) ==
    IF Has(prop, affix_type) /\ Get(prop, affix_type) # PyMap(<<>>)
    THEN The({ IF r.ok
               THEN [r.m EXCEPT !.ctx.affix = Put(@, format_key(key, affix_type), r.val)]
               ELSE Warn(r.m, IGNORED, key \o "." \o affix_type) :
               r \in {parse_prop(Get(prop, affix_type), dump_to, read_from, m, fr)} })
    ELSE m
register_affixable(key, prop, dump_to, read_from, m, fr) ==
    RegisterAffix(AFFIX_KEYS[2], key, prop, dump_to, read_from,
                  RegisterAffix(AFFIX_KEYS[1], key, prop, dump_to, read_from, m, fr), fr)

\* (mutation) the keys the includer already holds win over the included ones
MergeIncluded_under(dump_to, returned) == Update(returned, dump_to)
\* line 72: dump_to.update(_dump_to_dict(included, dump_to=dump_to, ...)), where
\* returned is the scope the recursive call built on top of dump_to
MergeIncluded(dump_to, returned) == Update(dump_to, returned)

\* lines 68-73 of _dump_to_dict, over the paths left: ok = FALSE is an
\* exception, which leaves the path on file_stack
IncludePaths(paths, dump_to, m, fr) ==
    IF paths = <<>> THEN [ok |-> TRUE, dump |-> dump_to, m |-> m]
    ELSE LET path == Head(paths)
             pushed == [m EXCEPT !.ctx.file_stack = Append(@, path)]
             resolved == _resolve_yaml_path(path, DEFAULT_CONFIGS_FOLDER)
             included == _load_yaml(resolved.path)
         IN  IF ~resolved.ok THEN [ok |-> FALSE, dump |-> dump_to, m |-> pushed]
             ELSE IF ~included.ok \/ fr.depth = 0 THEN [ok |-> FALSE, dump |-> dump_to, m |-> pushed]
             ELSE The({ IF r.exc # NoExc THEN [ok |-> FALSE, dump |-> r.dump, m |-> r.m]
                        ELSE IncludePaths(Tail(paths), MergeIncluded(dump_to, r.dump),
                                 [r.m EXCEPT !.ctx.file_stack = SubSeq(@, 1, Len(@) - 1)], fr) :
                        r \in {_dump_to_dict(included.data, dump_to, dump_to, pushed,
                                   [aliased |-> TRUE, top |-> fr.top,
                                    depth |-> fr.depth - 1])} })

\* (mutation) a key the scope already holds keeps its first value
StoreParsed_first_wins(dump_to, key, parsed_value) ==
    IF Has(dump_to, key) THEN dump_to ELSE Put(dump_to, key, parsed_value)
\* the dict.update of line 80 of _dump_to_dict
StoreParsed(dump_to, key, parsed_value) == Put(dump_to, key, parsed_value)

\* (mutation) the exception is not caught: it leaves _dump_to_dict
IgnoreField_uncaught(dump_to, m, key) == [dump |-> dump_to, m |-> m, exc |-> "ParseError"]
\* the except branches of _dump_to_dict (lines 74-76 and 81-83): warn, continue
IgnoreField(dump_to, m, key) == [dump |-> dump_to, m |-> Warn(m, IGNORED, key), exc |-> NoExc]

\* one iteration of the loop of _dump_to_dict (lines 60-95)
ProcessField(key, raw_prop, dump_to, read_from, m, fr) ==
    LET norm == normalize_prop(key, raw_prop)
        prop == norm.prop
        m0 == IF norm.warn THEN Warn(m, SUSPICIOUS, key) ELSE m
        m1 == [m0 EXCEPT !.ctx.field_props = Put(@, key, PyMap(prop))]
        rd == ReadFrom(dump_to, read_from, fr)
    IN  IF ~norm.ok THEN [dump |-> dump_to, m |-> m, exc |-> "ValueError"]
        ELSE IF Get(prop, VALIDATOR) = PyStr(PROP_STRING_VALIDATION_YAML)
        THEN LET value == fetch_value(PyMap(prop), dump_to, rd)
                 paths == IF IsList(value.val) THEN value.val.items ELSE <<value.val>>
             IN  IF ~value.ok THEN IgnoreField(dump_to, m1, key)
                 ELSE The({ IF ~inc.ok
                            THEN IgnoreField(inc.dump, inc.m, key)
                            ELSE [dump |-> inc.dump, m |-> RecordKeep(inc.m, key, prop),
                                  exc |-> NoExc] :
                            inc \in {IncludePaths(paths, dump_to, m1, fr)} })
        ELSE The({ LET stored == StoreParsed(dump_to, key, r.val)
                       m2 == Wrote(r.m, key, r.val, PyMap(prop), fr.top)
                       m3 == register_affixable(key, prop, stored,
                                                ReadFrom(stored, read_from, fr), m2, fr)
                   IN  IF ~r.ok THEN IgnoreField(dump_to, r.m, key)
                       ELSE [dump |-> stored, m |-> RecordKeep(m3, key, prop), exc |-> NoExc] :
                   r \in {parse_prop(PyMap(prop), dump_to, rd, m1, fr)} })

\* PSIF.ignore_configs
ignore_configs(handle) == Del(handle, CONFIGS)

RECURSIVE DumpLoop(_, _, _, _, _)
\* the loop of _dump_to_dict over the entries left
DumpLoop(entries, dump_to, read_from, m, fr) ==
    IF entries = <<>> THEN [dump |-> dump_to, m |-> m, exc |-> NoExc]
    ELSE The({ IF r.exc # NoExc THEN r
               ELSE DumpLoop(Tail(entries), r.dump, read_from, r.m, fr) :
               r \in {ProcessField(Head(entries).k, Head(entries).v, dump_to, read_from,
                                   m, fr)} })
_dump_to_dict(local_handle, dump_to, read_from, m, fr) ==
    DumpLoop(ignore_configs(local_handle), dump_to, read_from, m, fr)
(***************************************************************************)
(* _resolve_marked_for_delete. ok = FALSE is the TypeError of an           *)
(* unhashable referenced value or source.                                  *)
(***************************************************************************)
\* prop.get(k)
GetOrNone(d, k) == IF Has(d, k) THEN Get(d, k) ELSE PyNone
\* lines 124-127: the values of the descriptors whose source is "field"
Referenced(field_props) ==
    {GetOrNone(field_props[i].v.items, VALUE) :
        i \in {j \in 1..Len(field_props) :
                 GetOrNone(field_props[j].v.items, SOURCE) = PyStr(VALUE_FROM_FIELD)}}
\* lines 129-136, for one referenced field: TRUE when it is marked
InferredDelete(field_props, field) ==
    IF ~IsStr(field) \/ ~Has(field_props, field.s)
    THEN ~default_keep
    ELSE ~default_keep_for_source(GetOrNone(Get(field_props, field.s).items, SOURCE))
\* (mutation) the explicitly kept keys are not taken out
ApplyExplicit_no_kept(marked, ctx) == marked \cup ctx.explicitly_deleted
\* lines 139-140
ApplyExplicit(marked, ctx) == (marked \cup ctx.explicitly_deleted) \ ctx.explicitly_kept
_resolve_marked_for_delete(ctx) ==
    LET referenced == Referenced(ctx.field_props)
        unhashable ==
            \/ \E f \in referenced : ~IsHashable(f)
            \/ \E f \in referenced :
                  /\ IsStr(f) /\ Has(ctx.field_props, f.s)
                  /\ ~IsHashable(GetOrNone(Get(ctx.field_props, f.s).items, SOURCE))
        marked == {f.s : f \in {g \in referenced : InferredDelete(ctx.field_props, g)}}
    IN  IF unhashable THEN [ok |-> FALSE, ctx |-> ctx]
        ELSE [ok |-> TRUE, ctx |-> [ctx EXCEPT !.marked_for_delete = ApplyExplicit(marked, ctx)]]

(***************************************************************************)
(* apply_localization                                                      *)
(***************************************************************************)
RECURSIVE resolve(_, _)
\* the value a localization table holds for the language (line 193)
LocalizedEntry(value, language) == Get(value.items, language)
\* (mutation) a table without the language falls back to its "en" entry
resolve_fallback(value, language) ==
    IF IsMap(value)
    THEN IF Has(value.items, language)
         THEN LocalizedEntry(value, language)
         ELSE IF Has(value.items, LANGUAGE_DEFAULT)
         THEN Get(value.items, LANGUAGE_DEFAULT)
         ELSE PyMap([i \in 1..Len(value.items) |->
                        KV(value.items[i].k, resolve(value.items[i].v, language))])
    ELSE IF IsList(value)
    THEN PyList([i \in 1..Len(value.items) |-> resolve(value.items[i], language)])
    ELSE value
resolve(value, language) ==
    IF IsMap(value)
    THEN IF Has(value.items, language)
         THEN LocalizedEntry(value, language)
         ELSE PyMap([i \in 1..Len(value.items) |->
                        KV(value.items[i].k, resolve(value.items[i].v, language))])
    ELSE IF IsList(value)
    THEN PyList([i \in 1..Len(value.items) |-> resolve(value.items[i], language)])
    ELSE value
\* {k: resolve(v) for k, v in d.items()}
ResolveAll(d, language) == [i \in 1..Len(d) |-> KV(d[i].k, resolve(d[i].v, language))]

(***************************************************************************)
(* apply_affixes. ok = FALSE is the ValueError of a registry key that does *)
(* not unpack, the KeyError of a key the scope lacks or the TypeError of   *)
(* a + b.                                                                  *)
(***************************************************************************)
\* a + b is defined: two str, two list, two numbers
Addable(a, b) ==
    \/ IsStr(a) /\ IsStr(b)
    \/ IsList(a) /\ IsList(b)
    \/ IsNumber(a) /\ IsNumber(b)
\* a + b
Add(a, b) ==
    IF IsStr(a) THEN PyStr(a.s \o b.s)
    ELSE IF IsList(a) THEN PyList(a.items \o b.items)
    ELSE PyInt(a.n + b.n)
\* lines 214-215: the decorated value
Decorate(affix, value, affix_value) ==
    IF affix = SUFFIX THEN Add(value, affix_value) ELSE Add(affix_value, value)
RECURSIVE apply_affixes(_, _)
apply_affixes(params_dict, affix_dict) ==
    IF affix_dict = <<>> THEN [ok |-> TRUE, params |-> params_dict]
    ELSE LET field == Head(affix_dict).k
             affix_value == Head(affix_dict).v
             u == unpack_affix_key(field)
         IN  IF ~u.ok \/ u.affix \notin {SUFFIX, PREFIX} THEN [ok |-> FALSE, params |-> params_dict]
             ELSE IF ~Has(params_dict, u.key) THEN [ok |-> FALSE, params |-> params_dict]
             ELSE IF ~(IF u.affix = SUFFIX THEN Addable(Get(params_dict, u.key), affix_value)
                                           ELSE Addable(affix_value, Get(params_dict, u.key)))
             THEN [ok |-> FALSE, params |-> params_dict]
             ELSE apply_affixes(
                      Put(params_dict, u.key, Decorate(u.affix, Get(params_dict, u.key), affix_value)),
                      Tail(affix_dict))
(***************************************************************************)
(* Entry points                                                            *)
(***************************************************************************)
\* how many nested calls of _dump_to_dict the interpreter's recursion limit
\* (sys.getrecursionlimit()) leaves room for
RecursionLimit == 4
TopFrame == [aliased |-> TRUE, top |-> TRUE, depth |-> RecursionLimit]
\* _yaml_parse_from_dict(handle, ctx, configs_folder, dump_to, read_from) as its
\* callers use it: read_from is dump_to (both None, or both the merged dict)
_yaml_parse_from_dict(handle, m, dump_to) == _dump_to_dict(handle, dump_to, dump_to, m, TopFrame)
\* line 278 of PlotStyle.__init__: self._delete_marked_fields() is called
\* without the ctx its signature requires, a TypeError
DeleteRaises(keep_all) == ~keep_all
\* PlotStyle.__init__(yaml_dict=..., language=..., keep_all_fields=..., ctx=...)
\* as a whole: exc # "none" is the exception that leaves the constructor
PlotStyleInit(handle, m, lang, keep_all) ==
    The({ LET marked == _resolve_marked_for_delete(parsed.m.ctx)
              m1 == [parsed.m EXCEPT !.ctx = marked.ctx]
              localized == ResolveAll(parsed.dump, lang)
              m2 == [m1 EXCEPT !.ctx.affix = ResolveAll(@, lang)]
              affixed == apply_affixes(localized, m2.ctx.affix)
          IN  IF parsed.exc # NoExc THEN [exc |-> parsed.exc, attrs |-> <<>>, m |-> parsed.m]
              ELSE IF ~marked.ok THEN [exc |-> "TypeError", attrs |-> <<>>, m |-> m1]
              ELSE IF ~affixed.ok THEN [exc |-> "AffixError", attrs |-> <<>>, m |-> m2]
              ELSE IF DeleteRaises(keep_all) THEN [exc |-> "TypeError", attrs |-> <<>>, m |-> m2]
              ELSE [exc |-> NoExc, attrs |-> affixed.params, m |-> m2] :
          parsed \in {_yaml_parse_from_dict(handle, m, <<>>)} })

RECURSIVE ParseFiles(_, _, _)
\* the loop of _yaml_parse_list (lines 109-118) over the files left; the
\* history counts the documents
ParseFiles(files, merged, m) ==
    IF files = <<>> THEN [exc |-> NoExc, dump |-> merged, m |-> m]
    ELSE LET entry_file == _resolve_yaml_path(Head(files), DEFAULT_CONFIGS_FOLDER)
             handle == _load_yaml(entry_file.path)
         IN  IF ~entry_file.ok THEN [exc |-> "FileNotFoundError", dump |-> merged, m |-> m]
             ELSE IF ~handle.ok THEN [exc |-> "TypeError", dump |-> merged, m |-> m]
             ELSE The({ IF r.exc # NoExc THEN r
                        ELSE ParseFiles(Tail(files), r.dump, [r.m EXCEPT !.doc = @ + 1]) :
                        r \in {_yaml_parse_from_dict(handle.data, m, merged)} })
\* _yaml_parse_list(entry_list, ctx, configs_folder), entry_list a list
_yaml_parse_list(entry_list, m) == ParseFiles(entry_list, <<>>, m)

(***************************************************************************)
(* PSTemplate.expand. The first loop builds one payload per config (its    *)
(* own context and the merged config), the second one resolves a PlotStyle *)
(* per payload.                                                            *)
(***************************************************************************)
RECURSIVE CollectLoop(_, _, _, _)
\* lines 164-187, over the normalized fields of the config left
CollectLoop(cfg_norm, merged, m, base_yaml) ==
    IF cfg_norm = <<>> THEN [exc |-> NoExc, merged |-> merged, m |-> m]
    ELSE LET key == Head(cfg_norm).k
             prop == Head(cfg_norm).v
             files == fetch_value(prop, <<>>, base_yaml)
         IN  IF key # YAML
             THEN CollectLoop(Tail(cfg_norm), Put(merged, key, prop), m, base_yaml)
             ELSE IF ~files.ok THEN [exc |-> "FetchError", merged |-> merged, m |-> m]
             ELSE The({ IF parsed.exc # NoExc
                        THEN [exc |-> parsed.exc, merged |-> merged, m |-> parsed.m]
                        ELSE CollectLoop(Tail(cfg_norm), Update(merged, parsed.dump),
                                         parsed.m, base_yaml) :
                        parsed \in {_yaml_parse_list(IF IsList(files.val) THEN files.val.items
                                                     ELSE <<files.val>>, m)} })
RECURSIVE NormWarnings(_, _)
\* the warnings of the normalize_prop calls of line 161
NormWarnings(cfg, m) ==
    IF cfg = <<>> THEN m
    ELSE NormWarnings(Tail(cfg), IF normalize_prop(Head(cfg).k, Head(cfg).v).warn
                                 THEN Warn(m, SUSPICIOUS, Head(cfg).k) ELSE m)
\* lines 160-189: one turn of the first loop of expand
CollectConfig(cfg, base_yaml) ==
    IF \E i \in 1..Len(cfg) : ~normalize_prop(cfg[i].k, cfg[i].v).ok
    THEN [exc |-> "ValueError", merged |-> <<>>, m |-> NewMachine]
    ELSE CollectLoop([i \in 1..Len(cfg) |->
                         KV(cfg[i].k, PyMap(normalize_prop(cfg[i].k, cfg[i].v).prop))],
                     <<>>, NormWarnings(cfg, NewMachine), base_yaml)
\* lines 191-193
VirtualYamlDict(merged, base_yaml) == Update(Update(<<>>, merged), base_yaml)
\* lines 194-196: ok = FALSE is the exception of fetch_value
TemplateLanguage(virtual_yaml_dict) ==
    IF Has(virtual_yaml_dict, LANGUAGE)
    THEN fetch_value(Get(virtual_yaml_dict, LANGUAGE), <<>>, <<>>)
    ELSE [ok |-> TRUE, val |-> PyStr(LANGUAGE_DEFAULT)]
\* a language no table has as a key
NoLanguage == ""
RECURSIVE VisitsTable(_)
\* resolve(value) evaluates "language in value" for some dict
VisitsTable(value) ==
    \/ IsMap(value)
    \/ IsList(value) /\ \E i \in 1..Len(value.items) : VisitsTable(value.items[i])
\* lines 190-198: one turn of the second loop of expand. A language that is
\* no str is the key of no table, and one that is not hashable is a
\* TypeError at the first table apply_localization visits.
ExpandPayload(payload, base_yaml, keep_all) ==
    LET virtual_yaml_dict == VirtualYamlDict(payload.config, base_yaml)
        lang == TemplateLanguage(virtual_yaml_dict)
        code == IF IsStr(lang.val) THEN lang.val.s ELSE NoLanguage
    IN  IF ~lang.ok THEN [exc |-> "FetchError", attrs |-> <<>>, language |-> NoLanguage]
        ELSE IF /\ ~IsHashable(lang.val)
                /\ \E parsed \in {_yaml_parse_from_dict(virtual_yaml_dict, payload.ctx, <<>>)} :
                      /\ parsed.exc = NoExc
                      /\ _resolve_marked_for_delete(parsed.m.ctx).ok
                      /\ \E i \in 1..Len(parsed.dump \o parsed.m.ctx.affix) :
                            VisitsTable((parsed.dump \o parsed.m.ctx.affix)[i].v)
        THEN [exc |-> "TypeError", attrs |-> <<>>, language |-> NoLanguage]
        ELSE The({ [exc |-> r.exc, attrs |-> r.attrs, language |-> code] :
                   r \in {PlotStyleInit(virtual_yaml_dict, payload.ctx, code, keep_all)} })

(***************************************************************************)
(* The declarations a document of the model is made of                     *)
(***************************************************************************)
MaxFields == 3
With(descriptor, k, v) == PyMap(Append(descriptor.items, KV(k, v)))
LabelTable == PyMap(<<KV("en", PyStr("Hello")), KV("pt", PyStr("Ola"))>>)
\* declarations around references and keep marks
ReferenceDeclarations ==
    { KV("base", Lit(PyInt(10), "int")),
      KV("base", Lit(PyStr("10"), "int")),
      KV("base", With(Lit(PyInt(10), "int"), KEEP, PyBool(TRUE))),
      KV("base", With(Lit(PyInt(10), "int"), KEEP, PyBool(FALSE))),
      KV("base", With(Lit(PyInt(10), "int"), KEEP, PyStr("yes"))),
      KV("doubled", Ref("base", "int")),
      KV("doubled", With(Ref("base", "int"), KEEP, PyBool(TRUE))),
      KV("twice", Ref("doubled", "undetermined")),
      KV("orphan", Ref("ghost", "undetermined")),
      KV("bad", Lit(PyInt(1), "bogus")),
      KV("bad", With(With(Ref("base", "bogus"), KEEP, PyBool(TRUE)), SUFFIX, Full(PyStr("!"), "str"))),
      KV("opts", Lit(PyMap(<<KV("lw", Lit(PyInt(2), "linewidth")),
                             KV("ref", Ref("base", "int"))>>), "dict")),
      KV("opts", Lit(PyMap(<<KV("base", Lit(PyInt(2), "int")),
                             KV("ref", Ref("base", "int"))>>), "dict")),
      KV("raw", Tagged("explicit", PyMap(<<KV(SOURCE, PyStr(VALUE_FROM_LITERAL))>>))) }
\* declarations around chain-includes of the documents on disk
IncludeDeclarations ==
    { KV("title", PyStr("local")),
      KV("title", Lit(PyInt(7), "str")),
      KV("footer", Lit(PyStr("mine"), "bogus")),
      KV("inc", Include(PyStr("shared.yaml"))),
      KV("inc", Include(PyList(<<PyStr("shared.yaml"), PyStr("missing.yaml")>>))),
      KV("inc", With(Include(PyStr("scalar.yaml")), KEEP, PyBool(TRUE))),
      KV("inc", Include(PyStr("loop.yaml"))),
      KV("size", With(Lit(PyStr("14"), "str"), KEEP, PyBool(TRUE))),
      KV("bad", Lit(PyInt(1), "bogus")) }
\* declarations around affixes and localization tables
TextDeclarations ==
    { KV("name", PyMap(<<KV(VALUE, PyStr("Report")),
                         KV(SUFFIX, PyMap(<<KV(VALUE, PyStr("_v2"))>>))>>)),
      KV("name", PyMap(<<KV(VALUE, PyStr("Report")), KV(VALIDATOR, PyStr("str")),
                         KV(PREFIX, Full(PyStr("Draft_"), "str")),
                         KV(SUFFIX, Full(PyMap(<<KV("en", PyStr("_v2")), KV("pt", PyStr("_v2pt"))>>), "str"))>>)),
      KV("label", LabelTable),
      KV("label", PyMap(<<KV("caption", LabelTable),
                          KV("ticks", PyList(<<LabelTable, PyStr("plain")>>))>>)),
      KV("label", PyMap(<<KV("en", PyList(<<LabelTable>>)),
                          KV("pt", PyMap(<<KV("short", LabelTable)>>))>>)),
      KV("title", PyStr("local")),
      KV("base", Lit(PyInt(10), "int")),
      KV("bad", Lit(PyInt(1), "bogus")) }
\* a document of the model draws its fields, in any order, from one family
Families == {ReferenceDeclarations, IncludeDeclarations, TextDeclarations}
Declarations == UNION Families
Languages == {"en", "pt", "fr"}

(***************************************************************************)
(* PlotStyle(yaml_dict=...): the construction, one step per iteration of   *)
(* the loop of _dump_to_dict over the document and one per later call of   *)
(* __init__. The fields of the document are drawn one at a time.           *)
(***************************************************************************)
VARIABLES pc, yaml_dict, params, m, language, keep_all_fields, attrs, exc,
          entry_list, tpl
vars == <<pc, yaml_dict, params, m, language, keep_all_fields, attrs, exc, entry_list, tpl>>

\* no template: PlotStyle is constructed from a mapping
NoTemplate == [base_yaml |-> <<>>, configs |-> <<>>, payloads |-> <<>>, results |-> <<>>]

Init ==
    /\ pc = "parse"
    /\ yaml_dict = <<>>
    /\ params = <<>>
    /\ m = NewMachine
    /\ language = LANGUAGE_DEFAULT
    /\ keep_all_fields = default_keep
    /\ attrs = <<>>
    /\ exc = NoExc
    /\ entry_list = <<>>
    /\ tpl = NoTemplate

\* lines 60-95 of plotstyle.py, for the next field of yaml_dict
ParseField ==
    /\ pc = "parse"
    /\ Len(yaml_dict) < MaxFields
    /\ \E d \in Declarations :
          /\ ~Has(yaml_dict, d.k)
          /\ \E family \in Families :
                 d \in family /\ \A i \in 1..Len(yaml_dict) : yaml_dict[i] \in family
          /\ \E r \in {ProcessField(d.k, d.v, params, params, m, TopFrame)} :
                 /\ yaml_dict' = Append(yaml_dict, d)
                 /\ params' = r.dump
                 /\ m' = r.m
                 /\ exc' = r.exc
                 /\ pc' = IF r.exc = NoExc THEN "parse" ELSE "raised"
    /\ UNCHANGED <<language, keep_all_fields, attrs, entry_list, tpl>>

\* line 274: the loop is over, _resolve_marked_for_delete(ctx)
ResolveMarkedForDelete ==
    /\ pc = "parse"
    /\ LET r == _resolve_marked_for_delete(m.ctx)
       IN  /\ m' = [m EXCEPT !.ctx = r.ctx]
           /\ exc' = IF r.ok THEN NoExc ELSE "TypeError"
           /\ pc' = IF r.ok THEN "localize" ELSE "raised"
    /\ UNCHANGED <<yaml_dict, params, language, keep_all_fields, attrs, entry_list, tpl>>

\* line 276: apply_localization over the scope and the affix registry
ApplyLocalization ==
    /\ pc = "localize"
    /\ \E lang \in Languages :
          /\ language' = lang
          /\ params' = ResolveAll(params, lang)
          /\ m' = [m EXCEPT !.ctx.affix = ResolveAll(@, lang)]
    /\ pc' = "affix"
    /\ UNCHANGED <<yaml_dict, keep_all_fields, attrs, exc, entry_list, tpl>>

\* line 277: apply_affixes
ApplyAffixes ==
    /\ pc = "affix"
    /\ LET r == apply_affixes(params, m.ctx.affix)
       IN  /\ params' = r.params
           /\ exc' = IF r.ok THEN NoExc ELSE "AffixError"
           /\ pc' = IF r.ok THEN "delete" ELSE "raised"
    /\ UNCHANGED <<yaml_dict, m, language, keep_all_fields, attrs, entry_list, tpl>>

\* line 278: if not keep_all_fields: self._delete_marked_fields(). The call
\* passes no ctx to _delete_marked_fields(self, ctx): a TypeError.
DeleteMarkedFields ==
    /\ pc = "delete"
    /\ \E keep \in BOOLEAN :
          /\ keep_all_fields' = keep
          /\ exc' = IF DeleteRaises(keep) THEN "TypeError" ELSE NoExc
          /\ pc' = IF DeleteRaises(keep) THEN "raised" ELSE "setattr"
    /\ UNCHANGED <<yaml_dict, params, m, language, attrs, entry_list, tpl>>

\* line 280: the resolved keys become attributes of the object
SetAttributes ==
    /\ pc = "setattr"
    /\ attrs' = params
    /\ pc' = "done"
    /\ UNCHANGED <<yaml_dict, params, m, language, keep_all_fields, exc, entry_list, tpl>>

Next ==
    \/ ParseField
    \/ ResolveMarkedForDelete
    \/ ApplyLocalization
    \/ ApplyAffixes
    \/ DeleteMarkedFields
    \/ SetAttributes

Spec == Init /\ [][Next]_vars

\* ---- several constructions in one process ----
\* PlotStyle.__init__ declares ctx: _ParseContext = _ParseContext(): the default
\* is evaluated once, when the function is defined, so that every construction
\* that passes no ctx works on the same _ParseContext object, with what the
\* constructions before it left there.

\* the documents of a later construction
OtherDocuments == {<<>>} \cup { <<d>> : d \in TextDeclarations }

\* PlotStyle(yaml_dict, language, keep_all_fields) once more, on the same
\* document with the same options
ConstructAgain ==
    /\ pc \in {"done", "raised"}
    /\ \E r \in {PlotStyleInit(yaml_dict, m, language, keep_all_fields)} :
          /\ attrs' = r.attrs
          /\ exc' = r.exc
          /\ m' = r.m
    /\ pc' = "again"
    /\ UNCHANGED <<yaml_dict, params, language, keep_all_fields, entry_list, tpl>>

\* PlotStyle(yaml_dict, language, keep_all_fields) on another document
ConstructOther ==
    /\ pc \in {"done", "raised"}
    /\ \E other \in OtherDocuments :
          /\ yaml_dict' = other
          /\ \E r \in {PlotStyleInit(other, m, language, keep_all_fields)} :
                 /\ attrs' = r.attrs
                 /\ exc' = r.exc
                 /\ m' = r.m
    /\ pc' = "other"
    /\ UNCHANGED <<params, language, keep_all_fields, entry_list, tpl>>

NextProcess ==
    \/ Next
    \/ ConstructAgain
    \/ ConstructOther

SpecProcess == Init /\ [][NextProcess]_vars

(***************************************************************************)
(* _yaml_parse_list: the documents of entry_list are resolved one after    *)
(* the other into the same merged scope (params) under the same context.   *)
(* yaml_dict is the part of the current document that has been processed,  *)
(* entry_list the documents that are finished.                             *)
(***************************************************************************)
MaxListFields == 3
MaxFiles == 2
ListDeclarations ==
    { KV("base", Lit(PyInt(10), "int")),
      KV("base", Lit(PyStr("12"), "int")),
      KV("base", Lit(PyStr("ten"), "int")),
      KV("doubled", Ref("base", "int")),
      KV("title", PyStr("local")),
      KV("title", PyStr("final")),
      KV("title", Lit(PyInt(7), "str")),
      KV("inc", Include(PyStr("shared.yaml"))),
      KV("size", With(Lit(PyStr("14"), "str"), KEEP, PyBool(TRUE))),
      KV("opts", Lit(PyMap(<<KV("title", Lit(PyStr("inner"), "str"))>>), "dict")) }
\* files the loop cannot load
Unloadable == {"missing.yaml", "scalar.yaml", "notes.txt"}
RECURSIVE FieldCount(_)
FieldCount(docs) == IF docs = <<>> THEN 0 ELSE Len(Head(docs)) + FieldCount(Tail(docs))

InitList ==
    /\ pc = "merge"
    /\ yaml_dict = <<>>
    /\ params = <<>>
    /\ m = NewMachine
    /\ language = LANGUAGE_DEFAULT
    /\ keep_all_fields = default_keep
    /\ attrs = <<>>
    /\ exc = NoExc
    /\ entry_list = <<>>
    /\ tpl = NoTemplate

\* lines 112-118, the next field of the current document (lines 60-95)
MergeField ==
    /\ pc = "merge"
    /\ FieldCount(entry_list) + Len(yaml_dict) < MaxListFields
    /\ \E d \in ListDeclarations :
          /\ ~Has(yaml_dict, d.k)
          /\ \E r \in {ProcessField(d.k, d.v, params, params, m, TopFrame)} :
                 /\ yaml_dict' = Append(yaml_dict, d)
                 /\ params' = r.dump
                 /\ m' = r.m
                 /\ exc' = r.exc
                 /\ pc' = IF r.exc = NoExc THEN "merge" ELSE "raised"
    /\ UNCHANGED <<language, keep_all_fields, attrs, entry_list, tpl>>

\* lines 109-111: the current document is over, the next one is loaded
NextFile ==
    /\ pc = "merge"
    /\ Len(entry_list) + 1 < MaxFiles
    /\ entry_list' = Append(entry_list, yaml_dict)
    /\ yaml_dict' = <<>>
    /\ m' = [m EXCEPT !.doc = @ + 1]
    /\ UNCHANGED <<pc, params, language, keep_all_fields, attrs, exc, tpl>>

\* lines 110-111: the next file is not found, is no *.yaml or holds no mapping
LoadFails ==
    /\ pc = "merge"
    /\ \E file \in Unloadable :
          \E r \in {ParseFiles(<<PyStr(file)>>, params, m)} :
              /\ r.exc # NoExc
              /\ exc' = r.exc
    /\ pc' = "raised"
    /\ entry_list' = Append(entry_list, yaml_dict)
    /\ yaml_dict' = <<>>
    /\ UNCHANGED <<params, m, language, keep_all_fields, attrs, tpl>>

\* line 119: return merged
ReturnMerged ==
    /\ pc = "merge"
    /\ pc' = "merged"
    /\ entry_list' = Append(entry_list, yaml_dict)
    /\ yaml_dict' = <<>>
    /\ UNCHANGED <<params, m, language, keep_all_fields, attrs, exc, tpl>>

NextList ==
    \/ MergeField
    \/ NextFile
    \/ LoadFails
    \/ ReturnMerged

SpecList == InitList /\ [][NextList]_vars

(***************************************************************************)
(* PSTemplate(base_yaml, configs, keep_all_fields=...).expand(), consumed  *)
(* to its end.                                                             *)
(***************************************************************************)
MaxConfigs == 2
BaseScopes ==
    { <<KV("fontsize", PyInt(10))>>,
      <<KV("title", PyStr("base"))>>,
      <<KV("size", PyStr("20"))>>,
      <<KV(LANGUAGE, Full(PyStr("pt"), "str")), KV("label", LabelTable)>>,
      <<KV(LANGUAGE, PyStr("pt")), KV("fontsize", PyInt(10))>>,
      <<KV("base", PyInt(10)), KV("doubled", Ref("base", "int"))>>,
      <<KV("files", PyStr("shared.yaml")), KV("title", PyStr("base"))>> }
ConfigScopes ==
    { <<KV("fontsize", PyInt(20))>>,
      <<KV("fontsize", PyInt(30))>>,
      <<KV(YAML, PyStr("shared.yaml"))>>,
      <<KV(YAML, Ref("files", "yaml"))>>,
      <<KV(YAML, PyStr("missing.yaml"))>>,
      <<KV("title", PyStr("cfg")), KV("inc", Include(PyStr("shared.yaml")))>>,
      <<KV(LANGUAGE, PyStr("pt")), KV("label", PyMap(<<KV("caption", LabelTable)>>))>>,
      <<KV("raw", Tagged("explicit", PyStr("bare")))>> }
ConfigLists == UNION {[1..n -> ConfigScopes] : n \in 1..MaxConfigs}

InitTemplate ==
    /\ pc = "expand"
    /\ tpl \in {[base_yaml |-> b, configs |-> c, payloads |-> <<>>, results |-> <<>>] :
                   b \in BaseScopes, c \in ConfigLists}
    /\ keep_all_fields \in BOOLEAN
    /\ yaml_dict = <<>>
    /\ params = <<>>
    /\ m = NewMachine
    /\ language = LANGUAGE_DEFAULT
    /\ attrs = <<>>
    /\ exc = NoExc
    /\ entry_list = <<>>

\* lines 160-189: the payload of the next config
CollectPayload ==
    /\ pc = "expand"
    /\ Len(tpl.payloads) < Len(tpl.configs)
    /\ \E r \in {CollectConfig(tpl.configs[Len(tpl.payloads) + 1], tpl.base_yaml)} :
           /\ tpl' = [tpl EXCEPT !.payloads = Append(@, [ctx |-> r.m, config |-> r.merged])]
           /\ exc' = r.exc
           /\ pc' = IF r.exc = NoExc THEN "expand" ELSE "raised"
    /\ UNCHANGED <<yaml_dict, params, m, language, keep_all_fields, attrs, entry_list>>

\* lines 190-198: the PlotStyle of the next payload
YieldStyle ==
    /\ pc = "expand"
    /\ Len(tpl.payloads) = Len(tpl.configs)
    /\ Len(tpl.results) < Len(tpl.payloads)
    /\ \E r \in {ExpandPayload(tpl.payloads[Len(tpl.results) + 1], tpl.base_yaml,
                                keep_all_fields)} :
           /\ tpl' = [tpl EXCEPT !.results = Append(@, r)]
           /\ exc' = r.exc
           /\ pc' = IF r.exc = NoExc THEN "expand" ELSE "raised"
    /\ UNCHANGED <<yaml_dict, params, m, language, keep_all_fields, attrs, entry_list>>

\* the second loop is over: the generator is exhausted
StopIteration ==
    /\ pc = "expand"
    /\ Len(tpl.results) = Len(tpl.configs)
    /\ pc' = "done"
    /\ UNCHANGED <<yaml_dict, params, m, language, keep_all_fields, attrs, exc,
                   entry_list, tpl>>

NextTemplate ==
    \/ CollectPayload
    \/ YieldStyle
    \/ StopIteration

SpecTemplate == InitTemplate /\ [][NextTemplate]_vars

\* ---- load_plotstyle(file=...) ----
\* the mappings the file may hold: a base scope alone, or with a configs entry
FileDocuments ==
    LET values == {PyNone, PyInt(5), PyList(<<>>), PyList(<<PyInt(5)>>)}
                  \cup { PyMap(c) : c \in ConfigScopes }
                  \cup { PyList([i \in 1..Len(cs) |-> PyMap(cs[i])]) : cs \in ConfigLists }
    IN  BaseScopes \cup { Append(b, KV(CONFIGS, c)) : b \in BaseScopes, c \in values }

\* pop_configs: handle[CONFIGS], a KeyError (ok = FALSE) without the key
pop_configs(handle) == [ok |-> Has(handle, CONFIGS), val |-> GetOrNone(handle, CONFIGS)]

\* PSTemplate.__init__, lines 145-149: the list of configs, ok = FALSE a TypeError
PSTemplateInit(configs) ==
    LET listed == IF IsList(configs) THEN configs.items ELSE <<configs>>
    IN  IF ~IsList(configs) /\ ~IsMap(configs) THEN [ok |-> FALSE, configs |-> <<>>]
        ELSE IF \E i \in 1..Len(listed) : ~IsMap(listed[i])
        THEN [ok |-> FALSE, configs |-> <<>>]
        ELSE [ok |-> TRUE, configs |-> [i \in 1..Len(listed) |-> listed[i].items]]

InitLoad ==
    /\ pc = "load"
    /\ keep_all_fields \in BOOLEAN
    /\ yaml_dict = <<>>
    /\ params = <<>>
    /\ m = NewMachine
    /\ language = LANGUAGE_DEFAULT
    /\ attrs = <<>>
    /\ exc = NoExc
    /\ entry_list = <<>>
    /\ tpl = NoTemplate

\* lines 210-211: the file is found and holds a mapping
LoadYaml ==
    /\ pc = "load"
    /\ \E doc \in FileDocuments : yaml_dict' = doc
    /\ pc' = "loaded"
    /\ UNCHANGED <<params, m, language, keep_all_fields, attrs, exc, entry_list, tpl>>

\* lines 210-211: _resolve_yaml_path or _load_yaml raises
LoadYamlRaises ==
    /\ pc = "load"
    /\ \E f \in Unloadable :
          LET file == _resolve_yaml_path(PyStr(f), DEFAULT_CONFIGS_FOLDER)
          IN  /\ IF file.ok THEN ~_load_yaml(file.path).ok ELSE TRUE
              /\ exc' = IF ~file.ok THEN "FileNotFoundError" ELSE "TypeError"
    /\ pc' = "raised"
    /\ UNCHANGED <<yaml_dict, params, m, language, keep_all_fields, attrs, entry_list, tpl>>

\* line 212: the right-hand side is evaluated first, and pop_configs raises
\* KeyError for a document without the key
PopConfigsRaises ==
    /\ pc = "loaded"
    /\ ~pop_configs(yaml_dict).ok
    /\ exc' = "KeyError"
    /\ pc' = "raised"
    /\ UNCHANGED <<yaml_dict, params, m, language, keep_all_fields, attrs, entry_list, tpl>>

\* lines 212-214: configs is not None
ReturnTemplate ==
    /\ pc = "loaded"
    /\ pop_configs(yaml_dict).ok
    /\ pop_configs(yaml_dict).val # PyNone
    /\ yaml_dict' = ignore_configs(yaml_dict)
    /\ LET t == PSTemplateInit(pop_configs(yaml_dict).val)
       IN  /\ tpl' = IF t.ok THEN [base_yaml |-> ignore_configs(yaml_dict),
                                    configs |-> t.configs,
                                    payloads |-> <<>>, results |-> <<>>]
                      ELSE tpl
           /\ exc' = IF t.ok THEN NoExc ELSE "TypeError"
           /\ pc' = IF t.ok THEN "expand" ELSE "raised"
    /\ UNCHANGED <<params, m, language, keep_all_fields, attrs, entry_list>>

\* lines 212-215: configs is None
ReturnStyle ==
    /\ pc = "loaded"
    /\ pop_configs(yaml_dict).ok
    /\ pop_configs(yaml_dict).val = PyNone
    /\ yaml_dict' = ignore_configs(yaml_dict)
    /\ \E r \in {PlotStyleInit(ignore_configs(yaml_dict), m, language, keep_all_fields)} :
          /\ attrs' = r.attrs
          /\ exc' = r.exc
          /\ m' = r.m
          /\ pc' = IF r.exc = NoExc THEN "done" ELSE "raised"
    /\ UNCHANGED <<params, language, keep_all_fields, entry_list, tpl>>

NextLoad ==
    \/ LoadYaml
    \/ LoadYamlRaises
    \/ PopConfigsRaises
    \/ ReturnTemplate
    \/ ReturnStyle
    \/ NextTemplate

SpecLoad == InitLoad /\ [][NextLoad]_vars
(***************************************************************************)
(* Properties                                                              *)
(***************************************************************************)
Terminated == pc \in {"done", "raised"}
\* the sequence s without its i-th element
RemoveAt(s, i) == SubSeq(s, 1, i - 1) \o SubSeq(s, i + 1, Len(s))
\* the descriptor of a top-level entry of a document names a validator id
\* that is not registered
NamesUnknownValidator(entry) ==
    LET norm == normalize_prop(entry.k, entry.v)
    IN  /\ norm.ok
        /\ LET id == Get(norm.prop, VALIDATOR) IN ~(IsStr(id) /\ id.s \in VALIDATORS)
UnknownValidatorFields(doc) == {i \in 1..Len(doc) : NamesUnknownValidator(doc[i])}
IsChainInclude(entry) ==
    LET norm == normalize_prop(entry.k, entry.v)
    IN  norm.ok /\ Get(norm.prop, VALIDATOR) = PyStr(PROP_STRING_VALIDATION_YAML)
IgnoredWarning(key) == [kind |-> IGNORED, key |-> key]

Resolved == pc \in {"localize", "affix", "delete", "setattr", "done"}
Normalized(entry) == normalize_prop(entry.k, entry.v)
\* the fields of doc declared with source = field, and the keys they name
IsFieldRef(entry) ==
    /\ Normalized(entry).ok
    /\ GetOrNone(Normalized(entry).prop, SOURCE) = PyStr(VALUE_FROM_FIELD)
    /\ IsStr(GetOrNone(Normalized(entry).prop, VALUE))
RefTarget(entry) == Get(Normalized(entry).prop, VALUE).s
DeclaresKeep(doc, key) ==
    \E i \in 1..Len(doc) :
        /\ doc[i].k = key
        /\ Normalized(doc[i]).ok
        /\ Has(Normalized(doc[i]).prop, KEEP)
\* the declaration was processed to the end: its write is in the history
Succeeded(entry) ==
    /\ Normalized(entry).ok
    /\ \E i \in 1..Len(m.writes) :
          /\ m.writes[i].top
          /\ m.writes[i].key = entry.k
          /\ m.writes[i].prop = PyMap(Normalized(entry).prop)
InferredSet(ctx) ==
    {f.s : f \in {g \in Referenced(ctx.field_props) : InferredDelete(ctx.field_props, g)}}

\* C3: once the marks are resolved, every key named by a field declared with
\* source = field, and carrying no explicit keep, is marked for deletion,
\* while the referencing field is not marked unless it is itself a reference
\* target or explicitly deleted.
C3_ReferenceTargetsMarked ==
    Resolved =>
        \A i \in 1..Len(yaml_dict) :
            IsFieldRef(yaml_dict[i]) =>
                /\ ~DeclaresKeep(yaml_dict, RefTarget(yaml_dict[i])) =>
                      RefTarget(yaml_dict[i]) \in m.ctx.marked_for_delete
                /\ yaml_dict[i].k \in m.ctx.marked_for_delete =>
                      \/ yaml_dict[i].k \in m.ctx.explicitly_deleted
                      \/ \E j \in 1..Len(yaml_dict) :
                            IsFieldRef(yaml_dict[j]) /\ RefTarget(yaml_dict[j]) = yaml_dict[i].k

KeepIs(entry, b) ==
    /\ Normalized(entry).ok
    /\ GetOrNone(Normalized(entry).prop, KEEP) = PyBool(b)
KeepMalformed(entry) ==
    /\ Normalized(entry).ok
    /\ Has(Normalized(entry).prop, KEEP)
    /\ ~IsBool(Get(Normalized(entry).prop, KEEP))

\* C4 (as stated): the marks are (inferred \cup explicitlyDeleted) \
\* explicitlyKept; a key declared with keep: true is never marked, whatever
\* refers to it; a malformed keep adds the key to neither explicit set.
C4_KeepNeverMarked ==
    Resolved =>
        /\ m.ctx.marked_for_delete =
              (InferredSet(m.ctx) \cup m.ctx.explicitly_deleted) \ m.ctx.explicitly_kept
        /\ \A i \in 1..Len(yaml_dict) :
              /\ KeepIs(yaml_dict[i], TRUE) => yaml_dict[i].k \notin m.ctx.marked_for_delete
              /\ KeepMalformed(yaml_dict[i]) =>
                    yaml_dict[i].k \notin m.ctx.explicitly_kept \cup m.ctx.explicitly_deleted

\* C4 (amended): the same, for a key whose declaration with keep: true was
\* resolved successfully; a declaration that fails records no keep at all.
C4_ResolvedKeepNeverMarked ==
    Resolved =>
        /\ m.ctx.marked_for_delete =
              (InferredSet(m.ctx) \cup m.ctx.explicitly_deleted) \ m.ctx.explicitly_kept
        /\ \A i \in 1..Len(yaml_dict) :
              /\ (KeepIs(yaml_dict[i], TRUE) /\ Succeeded(yaml_dict[i])) =>
                    /\ yaml_dict[i].k \in m.ctx.explicitly_kept
                    /\ yaml_dict[i].k \notin m.ctx.marked_for_delete
              /\ (KeepIs(yaml_dict[i], FALSE) /\ Succeeded(yaml_dict[i])) =>
                    /\ yaml_dict[i].k \in m.ctx.explicitly_deleted
                    /\ yaml_dict[i].k \notin m.ctx.explicitly_kept =>
                          yaml_dict[i].k \in m.ctx.marked_for_delete
              /\ KeepMalformed(yaml_dict[i]) =>
                    yaml_dict[i].k \notin m.ctx.explicitly_kept \cup m.ctx.explicitly_deleted
\* a key the inference would delete is kept by its own keep: true
C4_Witness ==
    /\ pc = "done"
    /\ \E i \in 1..Len(yaml_dict) :
          /\ KeepIs(yaml_dict[i], TRUE) /\ Succeeded(yaml_dict[i])
          /\ yaml_dict[i].k \in InferredSet(m.ctx)
          /\ yaml_dict[i].k \notin m.ctx.marked_for_delete

\* C5: the deletion step ends with the scope's keys being K when
\* keepAllFields is true and K \ markedForDelete when it is false.
C5_DeletionApplied ==
    [][pc = "delete" =>
          /\ pc' = "setattr"
          /\ Keys(params') = IF keep_all_fields' THEN Keys(params)
                             ELSE Keys(params) \ m.ctx.marked_for_delete]_vars

\* --------------------------------------------------------------------------
\* Chain-loading (C6)

\* the scope the included document resolves to on its own
IncludedScope == _yaml_parse_from_dict(SharedYaml, NewMachine, <<>>).dump
\* a chain-include of shared.yaml that went through
IncludesShared(entry) ==
    /\ IsChainInclude(entry)
    /\ Get(Normalized(entry).prop, VALUE) = PyStr("shared.yaml")
    /\ \A i \in 1..Len(m.warnings) : m.warnings[i].key # entry.k
\* the value the field's own declaration resolved to
OwnValue(entry) ==
    LET i == CHOOSE i \in 1..Len(m.writes) :
                 /\ m.writes[i].top
                 /\ m.writes[i].key = entry.k
                 /\ m.writes[i].prop = PyMap(Normalized(entry).prop)
    IN  m.writes[i].val

\* C6: when a document chain-includes another one, a key that both declare
\* ends with the includer's value if the includer declares it after the
\* include, and with the included document's value if the includer declares
\* it before the include.
C6_ChainIncludePrecedence ==
    pc = "parse" =>
        \A i \in 1..Len(yaml_dict) :
            IncludesShared(yaml_dict[i]) =>
                \A j \in 1..Len(yaml_dict) :
                    (j # i /\ Has(IncludedScope, yaml_dict[j].k)) =>
                        /\ Has(params, yaml_dict[j].k)
                        /\ (j > i /\ Succeeded(yaml_dict[j])) =>
                              Get(params, yaml_dict[j].k) = OwnValue(yaml_dict[j])
                        /\ j < i =>
                              Get(params, yaml_dict[j].k) = Get(IncludedScope, yaml_dict[j].k)
\* title is declared before the include and size after it
C6_Witness ==
    /\ pc = "parse"
    /\ Len(yaml_dict) = 3
    /\ yaml_dict[1].k = "title" /\ Succeeded(yaml_dict[1])
    /\ IncludesShared(yaml_dict[2])
    /\ yaml_dict[3].k = "size" /\ Succeeded(yaml_dict[3])
    /\ Get(params, "title") = Get(IncludedScope, "title")
    /\ Get(params, "title") # OwnValue(yaml_dict[1])
    /\ Get(params, "size") = OwnValue(yaml_dict[3])
    /\ Get(params, "size") # Get(IncludedScope, "size")

\* --------------------------------------------------------------------------
\* Affixes (C8)

\* an affix descriptor that gives its value and nothing else
BareAffix(prop, affix_type) ==
    /\ Has(prop, affix_type)
    /\ IsMap(Get(prop, affix_type))
    /\ Keys(Get(prop, affix_type).items) = {VALUE}
    /\ IsStr(Get(Get(prop, affix_type).items, VALUE))
AffixText(prop, affix_type) ==
    IF Has(prop, affix_type) THEN Get(Get(prop, affix_type).items, VALUE).s ELSE ""
\* a literal string field whose affixes are all bare descriptors
DeclaresBareAffixes(entry) ==
    /\ Normalized(entry).ok
    /\ LET prop == Normalized(entry).prop
       IN  /\ GetOrNone(prop, SOURCE) = PyStr(VALUE_FROM_LITERAL)
           /\ GetOrNone(prop, VALIDATOR) \in {PyStr(PROP_STRING_VALIDATION_STR),
                                               PyStr(PROP_STRING_VALIDATION_UNDETERMINED)}
           /\ IsStr(GetOrNone(prop, VALUE))
           /\ \E a \in {PREFIX, SUFFIX} : Has(prop, a)
           /\ \A a \in {PREFIX, SUFFIX} : Has(prop, a) => BareAffix(prop, a)

\* C8: a field resolving to the string v, declared with the prefix
\* descriptor {value: p} and/or the suffix descriptor {value: s}, ends with
\* the value p ++ v ++ s.
C8_AffixComposition ==
    pc = "done" =>
        \A i \in 1..Len(yaml_dict) :
            DeclaresBareAffixes(yaml_dict[i]) =>
                LET prop == Normalized(yaml_dict[i]).prop
                IN  /\ Has(attrs, yaml_dict[i].k)
                    /\ Get(attrs, yaml_dict[i].k) =
                          PyStr(AffixText(prop, PREFIX) \o Get(prop, VALUE).s
                                    \o AffixText(prop, SUFFIX))

\* --------------------------------------------------------------------------
\* Localization (C9, C10)

RECURSIVE Localized(_, _)
\* localization as the document defines it: the entry of a table holding the
\* language is itself localized
Localized(value, lang) ==
    IF IsMap(value)
    THEN IF Has(value.items, lang)
         THEN Localized(Get(value.items, lang), lang)
         ELSE PyMap([i \in 1..Len(value.items) |->
                        KV(value.items[i].k, Localized(value.items[i].v, lang))])
    ELSE IF IsList(value)
    THEN PyList([i \in 1..Len(value.items) |-> Localized(value.items[i], lang)])
    ELSE value

SameShape(v, w) ==
    \/ /\ IsMap(v) /\ IsMap(w)
       /\ [i \in 1..Len(v.items) |-> v.items[i].k] = [i \in 1..Len(w.items) |-> w.items[i].k]
    \/ /\ IsList(v) /\ IsList(w)
       /\ Len(v.items) = Len(w.items)
Child(v, i) == IF IsMap(v) THEN v.items[i].v ELSE v.items[i]

RECURSIVE PresentOK(_, _, _)
\* w is v with every table holding lang, at any depth, replaced by the
\* localization of its entry
PresentOK(v, w, lang) ==
    IF IsMap(v) /\ Has(v.items, lang)
    THEN w = Localized(Get(v.items, lang), lang)
    ELSE IF (IsMap(v) \/ IsList(v)) /\ SameShape(v, w)
    THEN \A i \in 1..Len(v.items) : PresentOK(Child(v, i), Child(w, i), lang)
    ELSE TRUE

RECURSIVE AbsentOK(_, _, _)
\* w is v with every mapping lacking lang kept key for key and every list
\* kept position for position, the members handled on their own, and every
\* scalar unchanged; a table holding lang is not constrained here
AbsentOK(v, w, lang) ==
    IF IsMap(v) /\ Has(v.items, lang)
    THEN TRUE
    ELSE IF IsMap(v) \/ IsList(v)
    THEN /\ SameShape(v, w)
         /\ \A i \in 1..Len(v.items) : AbsentOK(Child(v, i), Child(w, i), lang)
    ELSE w = v

LocalizationStep == pc = "localize" /\ pc' = "affix"

\* C9: localization replaces a mapping holding the current language, at any
\* nesting depth, by the value of that entry, itself localized.
C9_LanguagePresent ==
    [][LocalizationStep =>
          \A i \in 1..Len(params) :
              /\ params'[i].k = params[i].k
              /\ PresentOK(params[i].v, params'[i].v, language')]_vars

\* C10: localization keeps the keys of a mapping lacking the current
\* language and localizes each of its values on its own, keeps a list's
\* length and order with each element localized, and leaves a scalar
\* unchanged; {en: "Hello", pt: "Ola"} under "fr" stays as it is.
C10_LanguageAbsent ==
    [][LocalizationStep =>
          /\ Len(params') = Len(params)
          /\ \A i \in 1..Len(params) :
                /\ params'[i].k = params[i].k
                /\ AbsentOK(params[i].v, params'[i].v, language')
          /\ \A i \in 1..Len(m.ctx.affix) :
                /\ m'.ctx.affix[i].k = m.ctx.affix[i].k
                /\ AbsentOK(m.ctx.affix[i].v, m'.ctx.affix[i].v, language')]_vars
\* a mapping lacking the language, holding the {en, pt} table and a list,
\* has been localized under "fr"
C10_Witness ==
    /\ pc = "affix"
    /\ language = "fr"
    /\ \E i \in 1..Len(params) :
          /\ IsMap(params[i].v)
          /\ \E j \in 1..Len(params[i].v.items) : params[i].v.items[j].v = LabelTable
          /\ \E j \in 1..Len(params[i].v.items) :
                /\ IsList(params[i].v.items[j].v)
                /\ Len(params[i].v.items[j].v.items) = 2

\* --------------------------------------------------------------------------
\* Merged lists (C2) and templates (C7)

\* the declarations that wrote key into the merged scope, in order
TopWrites(key) == {i \in 1..Len(m.writes) : m.writes[i].top /\ m.writes[i].key = key}
LastWrite(key) == m.writes[CHOOSE i \in TopWrites(key) : \A j \in TopWrites(key) : j <= i]

\* C2: in the scope merged from an ordered list of documents, the value of a
\* key is the one written by the last successful declaration of the key in
\* document order; when documents A and B, B later, both declare it
\* successfully, it is the value resolved from B.
C2_MergePrecedence ==
    pc \in {"merge", "merged"} =>
        /\ \A i \in 1..Len(m.writes) :
              m.writes[i].top =>
                  /\ Has(params, m.writes[i].key)
                  /\ Get(params, m.writes[i].key) = LastWrite(m.writes[i].key).val
        /\ \A a, b \in 1..Len(m.writes) :
              (/\ m.writes[a].top /\ m.writes[b].top
               /\ m.writes[a].key = m.writes[b].key
               /\ m.writes[a].doc < m.writes[b].doc
               /\ \A c \in TopWrites(m.writes[b].key) : m.writes[c].doc <= m.writes[b].doc
               /\ \A c \in TopWrites(m.writes[b].key) :
                     m.writes[c].doc = m.writes[b].doc => c <= b) =>
                  Get(params, m.writes[b].key) = m.writes[b].val
\* two documents have written different values under the same key
C2_Witness ==
    /\ pc = "merged"
    /\ Len(entry_list) = 2
    /\ \E a, b \in 1..Len(m.writes) :
          /\ m.writes[a].top /\ m.writes[b].top
          /\ m.writes[a].key = m.writes[b].key
          /\ m.writes[a].doc = 1 /\ m.writes[b].doc = 2
          /\ m.writes[a].val # m.writes[b].val
          /\ Get(params, m.writes[b].key) = m.writes[b].val

\* the base scope resolved on its own, under the language of the result
BaseAlone(lang) == PlotStyleInit(tpl.base_yaml, NewMachine, lang, TRUE)

\* C7: in every result of a template, every key declared in the base scope
\* has the value resolved from the base scope's declaration, whatever the
\* override scope or the documents it chain-loads declare or compute for it.
C7_BaseWins ==
    \A i \in 1..Len(tpl.results) :
        LET result == tpl.results[i]
            alone == BaseAlone(result.language)
        IN  (result.exc = NoExc /\ alone.exc = NoExc /\ alone.m.warnings = <<>>) =>
                \A j \in 1..Len(tpl.base_yaml) :
                    Has(alone.attrs, tpl.base_yaml[j].k) =>
                        /\ Has(result.attrs, tpl.base_yaml[j].k)
                        /\ Get(result.attrs, tpl.base_yaml[j].k) =
                              Get(alone.attrs, tpl.base_yaml[j].k)
\* ----------------------------------------------------------------------
\* Several constructions in one process (C11, C15)
\* ----------------------------------------------------------------------

\* C11: a second construction on the same document with the same options gives
\* the result of the first: the same attributes, or the same exception.
C11_Idempotent ==
    [][(pc \in {"done", "raised"} /\ pc' = "again") => (attrs' = attrs /\ exc' = exc)]_vars

\* a second construction that succeeds, of a document that registers a suffix
\* for one of its fields and includes another document
C11_Witness ==
    /\ pc = "again"
    /\ exc = NoExc
    /\ \E i \in 1..Len(yaml_dict) :
          /\ Has(m.ctx.affix, format_key(yaml_dict[i].k, SUFFIX))
          /\ Has(attrs, yaml_dict[i].k)
    /\ Len(yaml_dict) > 1

\* C15: a construction that is given no context works on a fresh one: the
\* construction of another document, after an earlier one in the same process,
\* gives what it gives on a new _ParseContext.
C15_FreshContext ==
    [][(pc' = "other") =>
          \E fresh \in {PlotStyleInit(yaml_dict', NewMachine, language, keep_all_fields)} :
              attrs' = fresh.attrs /\ exc' = fresh.exc]_vars

\* ----------------------------------------------------------------------
\* load_plotstyle (C12)
\* ----------------------------------------------------------------------

\* C12: from a file whose document has no configs key, load_plotstyle returns
\* the style PlotStyle builds from the document; from one that declares configs,
\* it returns a template whose base scope is the document without configs.
C12_LoadPlotstyle ==
    [][(pc = "loaded" /\ pc' # "loaded") =>
          IF ~Has(yaml_dict, CONFIGS)
          THEN \E r \in {PlotStyleInit(yaml_dict, m, language, keep_all_fields)} :
                   /\ pc' \in {"done", "raised"}
                   /\ attrs' = r.attrs
                   /\ exc' = r.exc
          ELSE /\ pc' = "expand"
               /\ tpl'.base_yaml = Del(yaml_dict, CONFIGS)]_vars

\* ----------------------------------------------------------------------
\* Template expansion (C13, C14)
\* ----------------------------------------------------------------------

\* C13: expansion is lazy and ordered: the payload of a config (its documents
\* loaded) is built no earlier than the request for its result, the i-th
\* result is the style of the i-th config, and an expansion that ends has
\* given one result per config.
C13_LazyOrdered ==
    /\ Len(tpl.payloads) <= Len(tpl.results) + 1
    /\ \A i \in 1..Len(tpl.results) :
          \E c \in {CollectConfig(tpl.configs[i], tpl.base_yaml)} :
              tpl.results[i] = ExpandPayload([ctx |-> c.m, config |-> c.merged],
                                             tpl.base_yaml, keep_all_fields)
    /\ (pc = "done" => Len(tpl.results) = Len(tpl.configs))

\* the value a scope declares for language, whatever the shape of the field
DeclaredLanguage(scope) ==
    GetOrNone(Normalized(KV(LANGUAGE, Get(scope, LANGUAGE))).prop, VALUE).s

\* C14: every result of an expansion is localized in the language the base
\* scope declares, else in the one its config declares, else in "en", and no
\* result fails on fetching the language.
C14_TemplateLanguage ==
    \A i \in 1..Len(tpl.results) :
        /\ tpl.results[i].exc # "FetchError"
        /\ tpl.results[i].language =
               IF Has(tpl.base_yaml, LANGUAGE) THEN DeclaredLanguage(tpl.base_yaml)
               ELSE IF Has(tpl.configs[i], LANGUAGE) THEN DeclaredLanguage(tpl.configs[i])
               ELSE LANGUAGE_DEFAULT

\* ----------------------------------------------------------------------
\* Failures of one field (C16, C17)
\* ----------------------------------------------------------------------

RECURSIVE Undecorated(_, _)
\* the scope decorated by the registry entries that can be applied, the ones
\* that cannot (no such key, operands that do not add) leaving it as it is
Undecorated(params_dict, affix_dict) ==
    IF affix_dict = <<>> THEN params_dict
    ELSE IF apply_affixes(params_dict, <<Head(affix_dict)>>).ok
    THEN Undecorated(apply_affixes(params_dict, <<Head(affix_dict)>>).params, Tail(affix_dict))
    ELSE Undecorated(params_dict, Tail(affix_dict))

\* C16: no step of the construction of a mapping raises because of one field
\* (the one exception of a construction is that of the deletion step), and
\* the affix step decorates what it can and leaves the other values alone.
C16_NoFieldAborts ==
    [][/\ (pc' = "raised" => pc = "delete")
       /\ (pc = "affix" => params' = Undecorated(params, m.ctx.affix))]_vars

\* the i-th declaration of the document failed: it is no chain-include and
\* wrote nothing
FailedField(i) ==
    /\ Normalized(yaml_dict[i]).ok
    /\ ~IsChainInclude(yaml_dict[i])
    /\ ~Succeeded(yaml_dict[i])
\* no chain-include is declared after the i-th entry and before the j-th
NoIncludeBetween(i, j) ==
    \A n \in (i + 1)..(j - 1) : n \in 1..Len(yaml_dict) => ~IsChainInclude(yaml_dict[n])

\* C17: a declaration of k that fails leaves the scope without k, whatever
\* wrote k before it, and a later reference to k fails as well.
C17_FailedFieldAbsent ==
    \A i \in 1..Len(yaml_dict) :
        FailedField(i) =>
            /\ NoIncludeBetween(i, Len(yaml_dict) + 1) => ~Has(params, yaml_dict[i].k)
            /\ \A j \in (i + 1)..Len(yaml_dict) :
                  (/\ IsFieldRef(yaml_dict[j])
                   /\ RefTarget(yaml_dict[j]) = yaml_dict[i].k
                   /\ NoIncludeBetween(i, j)) => ~Succeeded(yaml_dict[j])

\* ----------------------------------------------------------------------
\* References (C18)
\* ----------------------------------------------------------------------

\* the writes of declarations with source = field
RefWrites ==
    {i \in 1..Len(m.writes) :
        /\ GetOrNone(m.writes[i].prop.items, SOURCE) = PyStr(VALUE_FROM_FIELD)
        /\ IsStr(GetOrNone(m.writes[i].prop.items, VALUE))
        /\ IsStr(GetOrNone(m.writes[i].prop.items, VALIDATOR))}
\* the writes of key into the scope of the resolution before the i-th write
ReadWrites(i, key) == {j \in 1..(i - 1) : m.writes[j].top /\ m.writes[j].key = key}
\* the writes of key, before the i-th write, into the scope the i-th write
\* goes to: the scope of the resolution, or the nested mapping being parsed
\* (the writes since the last one into the scope of the resolution)
TargetWrites(i, key) ==
    IF m.writes[i].top THEN ReadWrites(i, key)
    ELSE {j \in 1..(i - 1) :
             /\ ~m.writes[j].top
             /\ m.writes[j].key = key
             /\ \A n \in j..(i - 1) : ~m.writes[n].top}
Latest(S) == CHOOSE j \in S : \A n \in S : n <= j

\* C18: a field with source = field resolves from the latest value of the
\* referenced key in its target scope if the target scope has the key, else
\* from the one in the read scope, and writes nothing when neither has it.
C18_TargetWins ==
    \A i \in RefWrites :
        LET key == Get(m.writes[i].prop.items, VALUE).s
            id == Get(m.writes[i].prop.items, VALIDATOR).s
            from == IF TargetWrites(i, key) # {} THEN TargetWrites(i, key)
                    ELSE ReadWrites(i, key)
        IN  /\ from # {}
            /\ m.writes[i].val = parse(id, m.writes[Latest(from)].val)

\* ----------------------------------------------------------------------
\* Chain-includes (C19, C20)
\* ----------------------------------------------------------------------

\* C19: processing a field leaves file_stack as it was, whether or not the
\* documents of a chain-include are found, loaded and merged, and a
\* construction that has ended has left no path on it.
C19_FileStackBalanced ==
    [][/\ (pc = "parse" => m'.ctx.file_stack = m.ctx.file_stack)
       /\ (pc' \in {"done", "raised"} => m'.ctx.file_stack = <<>>)]_vars

\* the files on disk whose document chain-includes the file itself
CyclicFiles ==
    {f \in DOMAIN Disk :
        \E i \in 1..Len(Disk[f].doc) :
            /\ IsChainInclude(Disk[f].doc[i])
            /\ Get(Normalized(Disk[f].doc[i]).prop, VALUE) = PyStr(f)}

\* C20: the construction from a document that chain-includes a document of a
\* cycle ends, and it ends with the error ResolutionTooDeep raised out of the
\* construction, not with a warning about the field.
C20_CycleIsFatal ==
    [][(/\ pc = "parse"
        /\ Len(yaml_dict') = Len(yaml_dict) + 1
        /\ IsChainInclude(yaml_dict'[Len(yaml_dict')])
        /\ \E f \in CyclicFiles :
              Get(Normalized(yaml_dict'[Len(yaml_dict')]).prop, VALUE) = PyStr(f))
       => (pc' = "raised" /\ exc' = "ResolutionTooDeep")]_vars

\* ----------------------------------------------------------------------
\* Decorations (C21)
\* ----------------------------------------------------------------------

\* the value of key decorated with the affixes of the declaration w alone
DecoratedBy(w, key) ==
    LET registry == register_affixable(key, w.prop.items, <<>>, <<>>,
                                       NewMachine, TopFrame).ctx.affix
    IN  apply_affixes(ResolveAll(<<KV(key, w.val)>>, language),
                      ResolveAll(registry, language))

\* C21: in the result of a construction, every key carries the prefix and
\* suffix of the declaration that wrote its final value, and only those: a
\* value whose declaration has no affix is not decorated, whatever an
\* overwritten declaration of the key had.
C21_DecorationsFollowWinner ==
    pc = "done" =>
        \A i \in 1..Len(attrs) :
            TopWrites(attrs[i].k) # {} =>
                \E d \in {DecoratedBy(LastWrite(attrs[i].k), attrs[i].k)} :
                    d.ok /\ attrs[i].v = Get(d.params, attrs[i].k)

====
